---- MODULE Spec2Model ----
(***************************************************************************)
(* sharekaro: the broadcast relay (network.rs spawn_server), the share and *)
(* revoke buttons that publish to it (gui.rs ChromeTabApp::update), the    *)
(* peer client (network.rs connect_client) and the browser operations the  *)
(* client offloads (chrome.rs).                                            *)
(***************************************************************************)
EXTENDS Integers, Sequences, FiniteSets, TLC

\* ------------------------------------------------------------------ bounds
\* inbound connections the relay sees
NPeers == 2
\* tabs listed by the sharing side's browser (their ids are the session ids)
NTabs == 2
\* Share clicks / Revoke clicks in the relay specification
MaxGrants == 2
MaxRevokes == 1
\* Share clicks beyond the channel capacity in the overflow specification
MaxExtra == 1
\* unread inbound messages a peer may have queued towards the relay
MaxInbound == 1

\* frames the client receives on its connection
MaxFrames == 3

\* cookies in the list given to a call of chrome.rs
MaxCookies == 2

\* broadcast::channel(16): the capacity of the Grant and of the Revoke channel
Capacity == 16

Peers == 1..NPeers
TabIds == 1..NTabs

\* ------------------------------------------------------------- wire format
\* chrome.rs Cookie: the four required fields, and the optional ones only
\* when present (a record's domain is the set of fields that are Some).
CookieJar(t) ==
    << [name |-> "sid", value |-> t, domain |-> ".example.com", path |-> "/",
        expires |-> 100, httpOnly |-> FALSE, secure |-> TRUE] >>

\* the fields of Cookie that are String, and those that are Option<_>
RequiredFields == {"name", "value", "domain", "path"}

OptionalFields ==
    {"expires", "httpOnly", "priority", "sameParty", "sameSite", "secure",
     "session", "size", "sourcePort", "sourceScheme"}

\* Serialize for Cookie: every Option field is written, None as null. The
\* JSON value of an optional field is << >> for null and << v >> for v.
CookieToJson(c) ==
    [k \in RequiredFields \cup OptionalFields |->
        IF k \in RequiredFields THEN c[k]
        ELSE IF k \in DOMAIN c THEN << c[k] >> ELSE << >>]

\* faulty variant: a null is taken for a value
CookieFromJsonKeepsNulls(j) == j

\* Deserialize for Cookie: an Option field that is missing or null is None
CookieFromJson(j) ==
    [k \in RequiredFields \cup {f \in OptionalFields \cap DOMAIN j : j[f] # << >>} |->
        IF k \in RequiredFields THEN j[k] ELSE j[k][1]]

\* ChromeTab.url of tab t
UrlOf(t) == t

\* whether get_cookies_for_tab succeeds on tab t: the last tab listed is one
\* whose debugging socket cannot be reached
FetchOk(t) == t # NTabs

\* GrantMessage { tab_id, url, cookies } built by the Share button;
\* get_cookies_for_tab(tab).unwrap_or_default() is the empty list on failure.
MakeGrant(t, fetched) ==
    [tab_id |-> t, url |-> UrlOf(t),
     cookies |-> IF fetched THEN CookieJar(t) ELSE << >>]

\* RevokeCookie { name, domain, path } of a Cookie
ToRevokeCookie(c) == [name |-> c.name, domain |-> c.domain, path |-> c.path]

\* RevokeMessage { tab_id, cookies } built by the Revoke button
MakeRevoke(t, fetched) ==
    [tab_id |-> t,
     cookies |-> IF fetched
                 THEN [i \in 1..Len(CookieJar(t)) |-> ToRevokeCookie(CookieJar(t)[i])]
                 ELSE << >>]

\* serde_json::to_value(&grant) then map.insert("type", "Grant"): the JSON
\* object of the text frame
GrantFrame(g) ==
    [type |-> "Grant", tab_id |-> g.tab_id, url |-> g.url,
     cookies |-> [i \in 1..Len(g.cookies) |-> CookieToJson(g.cookies[i])]]

\* serde_json::to_value(&revoke) then map.insert("type", "Revoke")
RevokeFrame(r) ==
    [type |-> "Revoke", tab_id |-> r.tab_id, cookies |-> r.cookies]

NoFrame == [seq |-> 0, text |-> [type |-> "none"]]

\* ------------------------------------------------------------------- state
VARIABLES
    \* relay: the two broadcast channels (every value a send stored, oldest first)
    grantLog, revokeLog,
    \* per connection: receivers alive, and each receiver's next position
    subscribed, grantNext, revokeNext,
    \* position of each receiver when it subscribed
    subAt,
    \* accept loop: "accept" (in listener.accept) or "handshake" (in accept_async)
    acceptPc,
    \* per connection: idle, handshake, select, send, done, rejected
    pc,
    \* select! branches disabled in the current loop iteration
    disabled,
    \* the frame ws.send is writing
    held,
    \* transport of the connection: none, open, closing, closed
    conn,
    \* inbound messages the peer has sent and the relay has not read
    inbound,
    \* frames written to the peer's socket, in order
    wire,
    \* publisher (GUI thread): running, or crashed
    guiStatus,
    \* Share / Revoke clicks so far and how many are allowed in this run
    nGrants, nRevokes, limits,
    \* publications that found no receiver
    unheard,
    \* whether a recv of this connection ever returned Lagged
    lagged,
    \* client: dial (in connect_async), recv (in the while-let loop), ended
    cpc,
    \* frames the client has received, the last one, and how many it dropped
    \* with a diagnostic
    nFrames, lastFrame, skipped,
    \* remote_to_local: session id -> local page id
    idmap,
    \* the spawn_blocking closures, in spawn order
    workers,
    \* the pages open in the client's browser, and how many it has created
    pages, created,
    \* the closures inside `map.lock()`: holding the guard of remote_to_local
    holders,
    \* chrome.rs: the call of import_and_open_with_cookies_from_memory or
    \* revoke_cookies being followed request by request
    call

relayVars ==
    << grantLog, revokeLog, subscribed, grantNext, revokeNext, subAt, acceptPc,
       pc, disabled, held, conn, inbound, wire, guiStatus, nGrants, nRevokes, limits, unheard, lagged >>

clientVars ==
    << cpc, nFrames, lastFrame, skipped, idmap, workers, pages, created, holders >>

chromeVars == << call >>

vars == << relayVars, clientVars, chromeVars >>

\* ---------------------------------------------------------- tokio broadcast
\* Sender::receiver_count
RxCount == Cardinality({p \in Peers : subscribed[p]})

\* Sender::send: Err when there is no receiver (the value is dropped), else the
\* value is stored at the tail
BroadcastSend(log, ev) ==
    IF RxCount = 0
    THEN [log |-> log, res |-> "err"]
    ELSE [log |-> Append(log, ev), res |-> "ok"]

\* Receiver::recv at position next: nothing to read (pending), Lagged when the
\* slot was overwritten (more than Capacity behind), else the value
RecvState(log, next) ==
    IF next >= Len(log) THEN "empty"
    ELSE IF next < Len(log) - Capacity THEN "lagged"
    ELSE "ok"

\* faulty variant: a lagging receiver is moved past everything stored
OldestRetainedNone(log) == Len(log)

\* the position a lagged receiver is moved to: the oldest value retained
OldestRetained(log) == Len(log) - Capacity

\* faulty variant: recv hands out the value and leaves the receiver where it was
NextPositionStays(next) == next

\* the receiver's position after recv returned the value at position next
NextPosition(next) == next + 1

\* faulty variant: a bounded queue per receiver: send waits while any receiver is full
SendReadyWhenRoom(log, next) ==
    \A p \in Peers : subscribed[p] => Len(log) - next[p] < Capacity

\* whether Sender::send can proceed: a broadcast send never waits for a receiver
SendReady(log, next) == TRUE

\* ------------------------------------------------------------- publisher
\* faulty variant: the send result is unwrapped: an Err panics the GUI thread
AfterSendUnwrap(res) == IF res = "err" THEN "crashed" ELSE "running"

\* result handling of `let _ = self.grant_tx.send(grant)`: the result is dropped
AfterSend(res) == "running"

\* "Share" clicked on tab t
ShareClicked(t, fetched) ==
    /\ guiStatus = "running"
    /\ nGrants < limits.grants
    /\ SendReady(grantLog, grantNext)
    /\ LET ev == [seq |-> nGrants + nRevokes + 1, msg |-> MakeGrant(t, fetched)]
           r  == BroadcastSend(grantLog, ev)
       IN /\ grantLog' = r.log
          /\ guiStatus' = AfterSend(r.res)
          /\ unheard' = IF r.res = "err" THEN unheard \cup {ev.seq} ELSE unheard
    /\ nGrants' = nGrants + 1
    /\ UNCHANGED << revokeLog, subscribed, grantNext, revokeNext, subAt, acceptPc,
                    pc, disabled, held, conn, inbound, wire, nRevokes, limits, lagged,
                    clientVars, chromeVars >>

\* "Revoke" clicked on tab t
RevokeClicked(t, fetched) ==
    /\ guiStatus = "running"
    /\ nRevokes < limits.revokes
    /\ SendReady(revokeLog, revokeNext)
    /\ LET ev == [seq |-> nGrants + nRevokes + 1, msg |-> MakeRevoke(t, fetched)]
           r  == BroadcastSend(revokeLog, ev)
       IN /\ revokeLog' = r.log
          /\ guiStatus' = AfterSend(r.res)
          /\ unheard' = IF r.res = "err" THEN unheard \cup {ev.seq} ELSE unheard
    /\ nRevokes' = nRevokes + 1
    /\ UNCHANGED << grantLog, subscribed, grantNext, revokeNext, subAt, acceptPc,
                    pc, disabled, held, conn, inbound, wire, nGrants, limits, lagged,
                    clientVars, chromeVars >>

\* ------------------------------------------------------------ accept loop
\* listener.accept() returned Ok: subscribe to both channels, then await the
\* WebSocket handshake inside the accept loop
Accept(p) ==
    /\ acceptPc = "accept"
    /\ pc[p] = "idle"
    /\ subscribed' = [subscribed EXCEPT ![p] = TRUE]
    /\ grantNext' = [grantNext EXCEPT ![p] = Len(grantLog)]
    /\ revokeNext' = [revokeNext EXCEPT ![p] = Len(revokeLog)]
    /\ subAt' = [subAt EXCEPT ![p] = [g |-> Len(grantLog), r |-> Len(revokeLog)]]
    /\ pc' = [pc EXCEPT ![p] = "handshake"]
    /\ conn' = [conn EXCEPT ![p] = "open"]
    /\ acceptPc' = "handshake"
    /\ UNCHANGED << grantLog, revokeLog, disabled, held, inbound, wire, guiStatus,
                    nGrants, nRevokes, limits, unheard, lagged,
                    clientVars, chromeVars >>

\* listener.accept() returned Err: logged, the loop goes on
AcceptError ==
    /\ acceptPc = "accept"
    /\ UNCHANGED vars

\* accept_async returned Ok(ws): the forwarding task is spawned
HandshakeOk(p) ==
    /\ acceptPc = "handshake"
    /\ pc[p] = "handshake"
    /\ pc' = [pc EXCEPT ![p] = "select"]
    /\ disabled' = [disabled EXCEPT ![p] = {}]
    /\ acceptPc' = "accept"
    /\ UNCHANGED << grantLog, revokeLog, subscribed, grantNext, revokeNext, subAt,
                    held, conn, inbound, wire, guiStatus, nGrants, nRevokes, limits, unheard, lagged,
                    clientVars, chromeVars >>

\* faulty variant: the accept loop is left on a failed handshake
AfterHandshakeErrorStops == "stopped"

\* where the accept loop goes after a failed handshake: `continue`
AfterHandshakeError == "accept"

\* accept_async returned Err: logged, both receivers are dropped, `continue`
HandshakeFail(p) ==
    /\ acceptPc = "handshake"
    /\ pc[p] = "handshake"
    /\ pc' = [pc EXCEPT ![p] = "rejected"]
    /\ subscribed' = [subscribed EXCEPT ![p] = FALSE]
    /\ conn' = [conn EXCEPT ![p] = "closed"]
    /\ acceptPc' = AfterHandshakeError
    /\ UNCHANGED << grantLog, revokeLog, grantNext, revokeNext, subAt, disabled,
                    held, inbound, wire, guiStatus, nGrants, nRevokes, limits,
                    unheard, lagged,
                    clientVars, chromeVars >>

\* ---------------------------------------------------------- forwarding task
\* where the task goes after ws.send returned res: `let _ = ws.send(..).await`,
\* the loop goes round again whatever the result
AfterWrite(res) == "select"

\* where the task goes after ws.next() returned Some(_): only None breaks
AfterInbound == "select"

\* select! branch `Ok(grant) = grant_rx.recv()`: the future completed. A Lagged
\* error moves the receiver to the oldest retained value and, the pattern not
\* matching, disables the branch for the rest of this select!; a value is
\* serialised and handed to ws.send
PollGrant(p) ==
    /\ pc[p] = "select"
    /\ "grant" \notin disabled[p]
    /\ RecvState(grantLog, grantNext[p]) # "empty"
    /\ IF RecvState(grantLog, grantNext[p]) = "lagged"
       THEN /\ grantNext' = [grantNext EXCEPT ![p] = OldestRetained(grantLog)]
            /\ disabled' = [disabled EXCEPT ![p] = @ \cup {"grant"}]
            /\ lagged' = [lagged EXCEPT ![p] = TRUE]
            /\ UNCHANGED << pc, held >>
       ELSE /\ grantNext' = [grantNext EXCEPT ![p] = NextPosition(@)]
            /\ held' = [held EXCEPT ![p] =
                           [seq |-> grantLog[grantNext[p] + 1].seq,
                            text |-> GrantFrame(grantLog[grantNext[p] + 1].msg)]]
            /\ pc' = [pc EXCEPT ![p] = "send"]
            /\ UNCHANGED << disabled, lagged >>
    /\ UNCHANGED << grantLog, revokeLog, subscribed, revokeNext, subAt, acceptPc,
                    conn, inbound, wire, guiStatus, nGrants, nRevokes, limits,
                    unheard,
                    clientVars, chromeVars >>

\* select! branch `Ok(revoke) = revoke_rx.recv()`
PollRevoke(p) ==
    /\ pc[p] = "select"
    /\ "revoke" \notin disabled[p]
    /\ RecvState(revokeLog, revokeNext[p]) # "empty"
    /\ IF RecvState(revokeLog, revokeNext[p]) = "lagged"
       THEN /\ revokeNext' = [revokeNext EXCEPT ![p] = OldestRetained(revokeLog)]
            /\ disabled' = [disabled EXCEPT ![p] = @ \cup {"revoke"}]
            /\ lagged' = [lagged EXCEPT ![p] = TRUE]
            /\ UNCHANGED << pc, held >>
       ELSE /\ revokeNext' = [revokeNext EXCEPT ![p] = NextPosition(@)]
            /\ held' = [held EXCEPT ![p] =
                           [seq |-> revokeLog[revokeNext[p] + 1].seq,
                            text |-> RevokeFrame(revokeLog[revokeNext[p] + 1].msg)]]
            /\ pc' = [pc EXCEPT ![p] = "send"]
            /\ UNCHANGED << disabled, lagged >>
    /\ UNCHANGED << grantLog, revokeLog, subscribed, grantNext, subAt, acceptPc,
                    conn, inbound, wire, guiStatus, nGrants, nRevokes, limits,
                    unheard,
                    clientVars, chromeVars >>

\* ws.send(Message::Text(text)).await completed: the frame reaches an open
\* transport, the write fails on one the peer has closed
WriteDone(p) ==
    /\ pc[p] = "send"
    /\ LET res == IF conn[p] = "open" THEN "ok" ELSE "err"
       IN /\ wire' = IF res = "ok"
                     THEN [wire EXCEPT ![p] = Append(@, held[p])]
                     ELSE wire
          /\ pc' = [pc EXCEPT ![p] = AfterWrite(res)]
    /\ held' = [held EXCEPT ![p] = NoFrame]
    /\ disabled' = [disabled EXCEPT ![p] = {}]
    /\ subscribed' = [subscribed EXCEPT ![p] = (pc'[p] # "done")]
    /\ UNCHANGED << grantLog, revokeLog, grantNext, revokeNext, subAt, acceptPc,
                    conn, inbound, guiStatus, nGrants, nRevokes,
                    limits, unheard, lagged,
                    clientVars, chromeVars >>

\* select! branch `msg = ws.next()`: a queued inbound message, then the Close
\* frame or the read error of a closed transport (both Some(_): the loop goes
\* on), then None: "Client disconnected", break, the receivers are dropped
PollWs(p) ==
    /\ pc[p] = "select"
    /\ \/ /\ inbound[p] > 0
          /\ inbound' = [inbound EXCEPT ![p] = @ - 1]
          /\ pc' = [pc EXCEPT ![p] = AfterInbound]
          /\ disabled' = [disabled EXCEPT ![p] = {}]
          /\ subscribed' = [subscribed EXCEPT ![p] = (pc'[p] # "done")]
          /\ UNCHANGED conn
       \/ /\ inbound[p] = 0
          /\ conn[p] = "closing"
          /\ conn' = [conn EXCEPT ![p] = "closed"]
          /\ pc' = [pc EXCEPT ![p] = AfterInbound]
          /\ disabled' = [disabled EXCEPT ![p] = {}]
          /\ subscribed' = [subscribed EXCEPT ![p] = (pc'[p] # "done")]
          /\ UNCHANGED inbound
       \/ /\ inbound[p] = 0
          /\ conn[p] = "closed"
          /\ pc' = [pc EXCEPT ![p] = "done"]
          /\ subscribed' = [subscribed EXCEPT ![p] = FALSE]
          /\ UNCHANGED << conn, inbound, disabled >>
    /\ UNCHANGED << grantLog, revokeLog, grantNext, revokeNext, subAt, acceptPc,
                    held, wire, guiStatus, nGrants, nRevokes,
                    limits, unheard, lagged,
                    clientVars, chromeVars >>

\* ------------------------------------------------------------ the peer side
\* the peer sends a message of its own (the relay reads and ignores it)
PeerSends(p) ==
    /\ pc[p] \in {"select", "send"}
    /\ conn[p] = "open"
    /\ inbound[p] < MaxInbound
    /\ inbound' = [inbound EXCEPT ![p] = @ + 1]
    /\ UNCHANGED << grantLog, revokeLog, subscribed, grantNext, revokeNext, subAt,
                    acceptPc, pc, disabled, held, conn, wire, guiStatus, nGrants, nRevokes, limits, unheard, lagged,
                    clientVars, chromeVars >>

\* the peer closes the transport
PeerCloses(p) ==
    /\ pc[p] \in {"select", "send"}
    /\ conn[p] = "open"
    /\ conn' = [conn EXCEPT ![p] = "closing"]
    /\ UNCHANGED << grantLog, revokeLog, subscribed, grantNext, revokeNext, subAt,
                    acceptPc, pc, disabled, held, inbound, wire, guiStatus, nGrants, nRevokes, limits, unheard, lagged,
                    clientVars, chromeVars >>

\* ------------------------------------------------------------ client frames
\* what the client's ws.next() can yield while the connection is up: a text
\* frame (its text parsed as JSON, or not JSON at all), or a frame of another
\* kind
TextFrame(obj) == [kind |-> "text", json |-> TRUE, obj |-> obj]

NotJson == [kind |-> "text", json |-> FALSE, obj |-> [raw |-> "garbage"]]

OtherFrame(k) == [kind |-> k, json |-> FALSE, obj |-> [raw |-> k]]

NoFrameYet == OtherFrame("none")

\* the frames the relay writes for a tab's Grant and Revoke
GoodFrames ==
    {TextFrame(GrantFrame(MakeGrant(t, FetchOk(t)))) : t \in TabIds}
        \cup {TextFrame(RevokeFrame(MakeRevoke(t, FetchOk(t)))) : t \in TabIds}

\* text frames that do not decode: not JSON, a Grant without url and cookies, a
\* Grant whose cookie lacks its value, a Revoke without cookies, an unknown
\* type, no type at all
BadFrames ==
    {NotJson,
     TextFrame([type |-> "Grant", tab_id |-> 1]),
     TextFrame([type |-> "Grant", tab_id |-> 1, url |-> 1,
                cookies |-> << [name |-> "sid", domain |-> ".example.com",
                                path |-> "/"] >>]),
     TextFrame([type |-> "Revoke", tab_id |-> 1]),
     TextFrame([type |-> "Hello", tab_id |-> 1]),
     TextFrame([tab_id |-> 1, cookies |-> << >>])}

\* frames that are not Message::Text
NonTextFrames == {OtherFrame("binary"), OtherFrame("ping"), OtherFrame("close")}

Frames == GoodFrames \cup BadFrames \cup NonTextFrames

\* v.get("type").and_then(|t| t.as_str())
TypeOf(obj) == IF "type" \in DOMAIN obj THEN obj.type ELSE "none"

\* serde: Cookie deserialises when its four required fields are there
CookieOk(c) == RequiredFields \subseteq DOMAIN c

\* serde: RevokeCookie deserialises when name, domain and path are there
RevokeCookieOk(c) == {"name", "domain", "path"} \subseteq DOMAIN c

\* faulty variant: cookies defaulting to the empty list when the field is missing
ParseGrantLenient(obj) ==
    [ok |-> "tab_id" \in DOMAIN obj,
     tab_id |-> IF "tab_id" \in DOMAIN obj THEN obj.tab_id ELSE 0,
     url |-> IF "url" \in DOMAIN obj THEN obj.url ELSE 0,
     cookies |-> IF "cookies" \in DOMAIN obj THEN obj.cookies ELSE << >>]

\* serde_json::from_value::<GrantMessage>(v): Ok when tab_id, url and cookies
\* are there and every cookie deserialises (other fields, "type" among them,
\* are ignored)
ParseGrant(obj) ==
    IF /\ {"tab_id", "url", "cookies"} \subseteq DOMAIN obj
       /\ \A i \in 1..Len(obj.cookies) : CookieOk(obj.cookies[i])
    THEN [ok |-> TRUE, tab_id |-> obj.tab_id, url |-> obj.url,
          cookies |-> [i \in 1..Len(obj.cookies) |-> CookieFromJson(obj.cookies[i])]]
    ELSE [ok |-> FALSE, tab_id |-> 0, url |-> 0, cookies |-> << >>]

\* serde_json::from_value::<RevokeMessage>(v)
ParseRevoke(obj) ==
    IF /\ {"tab_id", "cookies"} \subseteq DOMAIN obj
       /\ \A i \in 1..Len(obj.cookies) : RevokeCookieOk(obj.cookies[i])
    THEN [ok |-> TRUE, tab_id |-> obj.tab_id, cookies |-> obj.cookies]
    ELSE [ok |-> FALSE, tab_id |-> 0, cookies |-> << >>]

\* faulty variant: the map is reached without waiting for the mutex
LockSkipped(held_by) == TRUE

\* Mutex::lock returns once no guard of remote_to_local is alive
LockFree(held_by) == held_by = {}

\* faulty variant: an entry already there is kept (entry().or_insert)
MapInsertKeepsFirst(map, s, l) ==
    [k \in DOMAIN map \cup {s} |-> IF k \in DOMAIN map THEN map[k] ELSE l]

\* faulty variant: the map is rebuilt around the new entry
MapInsertAlone(map, s, l) == [k \in {s} |-> l]

\* HashMap::insert(s, l): the value of s becomes l, every other key keeps its
\* value
MapInsert(map, s, l) ==
    [k \in DOMAIN map \cup {s} |-> IF k = s THEN l ELSE map[k]]

\* faulty variant: the revoke is dispatched against the session id on the wire
LocalIdRaw(map, tab_id) == tab_id

\* guard.get(&tab_id).cloned().unwrap_or(tab_id.clone())
LocalIdFor(map, tab_id) == IF tab_id \in DOMAIN map THEN map[tab_id] ELSE tab_id

\* faulty variant: a frame that does not decode ends the loop
AfterBadFrameEnds == "ended"

\* where the loop goes after a text frame it could not use: `continue`, or the
\* end of the match arm
AfterBadFrame == "recv"

\* faulty variant: the loop awaits the browser call of the Grant it dispatched
AfterGrantWaits == "waiting"

\* where the loop goes after tokio::task::spawn_blocking for a Grant: the
\* JoinHandle is dropped, the loop goes round
AfterGrant == "recv"

\* faulty variant: a revoke for an unknown session ends the loop
AfterRevokeStrict(map, tab_id) == IF tab_id \in DOMAIN map THEN "recv" ELSE "ended"

\* where the loop goes after dispatching a Revoke, mapped or not
AfterRevoke(map, tab_id) == "recv"

\* ------------------------------------------------------------------ client
\* connect_async returned Ok
DialOk ==
    /\ cpc = "dial"
    /\ cpc' = "recv"
    /\ UNCHANGED << relayVars, chromeVars, holders, nFrames, lastFrame, skipped, idmap, workers, pages,
                    created >>

\* faulty variant: the client dials again when it has no connection
AfterLostRedials == "dial"

\* where connect_client goes when the dial failed (`return`) or ws.next()
\* yielded None or an error (the while-let ends and the function returns)
AfterLost == "ended"

\* connect_async returned Err: logged, connect_client returns
DialFail ==
    /\ cpc = "dial"
    /\ cpc' = AfterLost
    /\ UNCHANGED << relayVars, chromeVars, holders, nFrames, lastFrame, skipped, idmap, workers, pages,
                    created >>

\* ws.next() returned None or Some(Err(_)): the while-let ends
ConnectionLost ==
    /\ cpc = "recv"
    /\ cpc' = AfterLost
    /\ UNCHANGED << relayVars, chromeVars, holders, nFrames, lastFrame, skipped, idmap, workers, pages,
                    created >>

\* the closure spawned for a Grant
GrantWorker(g) ==
    [kind |-> "grant", tab_id |-> g.tab_id, url |-> g.url, cookies |-> g.cookies,
     target |-> 0, page |-> 0, ret |-> "pending", st |-> "spawned"]

\* the closure spawned for a Revoke, holding the local id looked up in the loop
RevokeWorker(r, local_id) ==
    [kind |-> "revoke", tab_id |-> r.tab_id, url |-> 0, cookies |-> r.cookies,
     target |-> local_id, page |-> 0, ret |-> "pending", st |-> "spawned"]

\* one iteration of `while let Some(Ok(Message::Text(text))) = ws.next().await`
\* with frame f
ClientRecv(f) ==
    /\ cpc = "recv"
    /\ nFrames < MaxFrames
    /\ nFrames' = nFrames + 1
    /\ lastFrame' = f
    /\ IF f.kind # "text"
       THEN \* the pattern does not match: the loop ends
            /\ cpc' = "ended"
            /\ UNCHANGED << skipped, workers >>
       ELSE IF ~f.json
       THEN \* "Invalid JSON received", continue
            /\ cpc' = AfterBadFrame
            /\ skipped' = skipped + 1
            /\ UNCHANGED workers
       ELSE IF TypeOf(f.obj) = "Grant"
       THEN IF ParseGrant(f.obj).ok
            THEN /\ workers' = Append(workers, GrantWorker(ParseGrant(f.obj)))
                 /\ cpc' = AfterGrant
                 /\ UNCHANGED skipped
            ELSE \* "Failed to parse grant message", continue
                 /\ cpc' = AfterBadFrame
                 /\ skipped' = skipped + 1
                 /\ UNCHANGED workers
       ELSE IF TypeOf(f.obj) = "Revoke"
       THEN IF ParseRevoke(f.obj).ok
            THEN \* the lookup block: lock, get, guard dropped at its end
                 /\ LockFree(holders)
                 /\ workers' = Append(workers,
                                  RevokeWorker(ParseRevoke(f.obj),
                                               LocalIdFor(idmap, ParseRevoke(f.obj).tab_id)))
                 /\ cpc' = AfterRevoke(idmap, ParseRevoke(f.obj).tab_id)
                 /\ UNCHANGED skipped
            ELSE \* "Failed to parse revoke message", continue
                 /\ cpc' = AfterBadFrame
                 /\ skipped' = skipped + 1
                 /\ UNCHANGED workers
       ELSE \* "Unknown message type"
            /\ cpc' = AfterBadFrame
            /\ skipped' = skipped + 1
            /\ UNCHANGED workers
    /\ UNCHANGED << relayVars, chromeVars, holders, idmap, pages, created >>

\* faulty variant: the closure goes on to the insert whatever the call returned
AfterApplyAlways(ok) == "applied"

\* `if let Ok(local_id) = import_and_open_with_cookies_from_memory(..)`: the
\* body with the insert runs on Ok only, on Err the closure is over
AfterApply(ok) == IF ok THEN "applied" ELSE "err"

\* the id the browser gives the next page it creates
NewPageId == NTabs + created + 1

\* Grant closure, import_and_open_with_cookies_from_memory up to the new tab's
\* id: PUT /json/new creates the page; a failed request or a response without
\* an id is an Err
GrantOpen(w, ok) ==
    /\ workers[w].kind = "grant"
    /\ workers[w].st = "spawned"
    /\ IF ok
       THEN /\ pages' = pages \cup {NewPageId}
            /\ created' = created + 1
            /\ workers' = [workers EXCEPT ![w].page = NewPageId, ![w].st = "opened"]
       ELSE /\ workers' = [workers EXCEPT ![w].ret = "err", ![w].st = AfterApply(FALSE)]
            /\ UNCHANGED << pages, created >>
    /\ UNCHANGED << relayVars, chromeVars, holders, cpc, nFrames, lastFrame, skipped, idmap >>

\* Grant closure, the rest of import_and_open_with_cookies_from_memory: connect
\* to the page's socket, Network.enable, a setCookie per cookie, Page.navigate;
\* a failed connect or write is an Err (the page stays), else Ok(local_tab_id)
GrantApply(w, ok) ==
    /\ workers[w].kind = "grant"
    /\ workers[w].st = "opened"
    /\ workers' = [workers EXCEPT ![w].ret = IF ok THEN "ok" ELSE "err",
                                   ![w].st = AfterApply(ok)]
    /\ UNCHANGED << relayVars, chromeVars, holders, cpc, nFrames, lastFrame, skipped, idmap, pages,
                    created >>

\* Grant closure, `let mut guard = map.lock().unwrap()`: waits for the mutex
GrantLock(w) ==
    /\ workers[w].kind = "grant"
    /\ workers[w].st = "applied"
    /\ LockFree(holders)
    /\ holders' = holders \cup {w}
    /\ workers' = [workers EXCEPT ![w].st = "locked"]
    /\ UNCHANGED << relayVars, chromeVars, cpc, nFrames, lastFrame, skipped, idmap,
                    pages, created >>

\* Grant closure, `guard.insert(tab_id.clone(), local_id)`, and the guard
\* dropped at the end of the block
GrantInsert(w) ==
    /\ workers[w].kind = "grant"
    /\ workers[w].st = "locked"
    /\ idmap' = MapInsert(idmap, workers[w].tab_id, workers[w].page)
    /\ holders' = holders \ {w}
    /\ workers' = [workers EXCEPT ![w].st = "done"]
    /\ UNCHANGED << relayVars, chromeVars, cpc, nFrames, lastFrame, skipped, pages,
                    created >>

\* faulty variant: an Err of revoke_cookies is unwrapped: the closure panics
RevokeFailedPanics == "panicked"

\* what the Revoke closure does with an Err of revoke_cookies: eprintln
RevokeFailed == "err"

\* Revoke closure: revoke_cookies(local_id, ..) lists the pages, fails with
\* "tab not found" when none has that id, else connects and writes one
\* Network.deleteCookies per triple (a failed connect or write is an Err); the
\* closure logs the Err or the success
RevokeRun(w, ok) ==
    /\ workers[w].kind = "revoke"
    /\ workers[w].st = "spawned"
    /\ workers' = [workers EXCEPT
                      ![w].ret = IF workers[w].target \in pages /\ ok THEN "ok" ELSE "err",
                      ![w].st = IF workers[w].target \in pages /\ ok THEN "ok" ELSE RevokeFailed]
    /\ UNCHANGED << relayVars, chromeVars, holders, cpc, nFrames, lastFrame, skipped, idmap, pages,
                    created >>

\* the user closes a page of the client's browser
PageClosed(l) ==
    /\ l \in pages
    /\ pages' = pages \ {l}
    /\ UNCHANGED << relayVars, chromeVars, holders, cpc, nFrames, lastFrame, skipped, idmap, workers,
                    created >>

\* ---------------------------------------------------------------- chrome.rs
\* import_and_open_with_cookies_from_memory and revoke_cookies, request by
\* request. A call: the function, its cookie list, where it is, the index of the
\* next cookie, the requests written to the page's socket, the items that
\* failed (0 for a step that is not an item) and the value returned.
NoCall ==
    [fn |-> "none", url |-> << >>, cookies |-> << >>, at |-> "idle", i |-> 1,
     put |-> << >>, page |-> "none", sent |-> << >>, failed |-> {},
     result |-> "none", value |-> "none"]

ChromeIdle == call = NoCall

\* cookies as the client holds them after decoding a Grant: without optional
\* fields, with all four that are sent on, with secure and httpOnly present and
\* false, with an expiry and a sameSite only
SampleCookies ==
    {[name |-> "sid", value |-> "v", domain |-> ".example.com", path |-> "/"],
     [name |-> "theme", value |-> "v", domain |-> ".example.com", path |-> "/",
      expires |-> 100, secure |-> TRUE, httpOnly |-> TRUE, sameSite |-> "Lax"],
     [name |-> "lang", value |-> "v", domain |-> ".example.com", path |-> "/",
      secure |-> FALSE, httpOnly |-> FALSE],
     [name |-> "seen", value |-> "v", domain |-> ".example.com", path |-> "/",
      expires |-> 100, sameSite |-> "Strict"]}

\* the cookie lists import_and_open_with_cookies_from_memory is given
CookieLists == UNION {[1..n -> SampleCookies] : n \in 0..MaxCookies}

\* the (name, domain, path) lists revoke_cookies is given
TripleLists ==
    UNION {[1..n -> {ToRevokeCookie(c) : c \in SampleCookies}] : n \in 0..MaxCookies}

\* urls, as the pieces a prefix test tells apart: with a web scheme, without a
\* scheme, with another scheme
Urls ==
    {<< "https://", "example.com" >>, << "http://", "example.com" >>,
     << "example.com" >>, << "chrome://", "settings" >>}

\* str::starts_with
StartsWith(u, prefix) == Len(u) > 0 /\ u[1] = prefix

\* faulty variant: the url is opened as given
ToOpenRaw(url) == url

\* to_open: the url itself when it starts with http:// or https://, else
\* format!("https://{}", url)
ToOpen(url) ==
    IF StartsWith(url, "http://") \/ StartsWith(url, "https://")
    THEN url
    ELSE << "https://" >> \o url

\* format!("http://localhost:9222/json/new?{}", to_open)
PutUrl(to_open) == << "http://localhost:9222/json/new?" >> \o to_open

\* the id of the page in the body of the PUT's response
NewTabId == "tab-1"

\* what can happen to the request of one item: written and carried out by the
\* browser, written and refused by the browser (an error reply, which is never
\* read), or not written (write_message returned Err)
ItemOutcomes == {"ok", "refused", "werr"}

EnableReq == [id |-> 1, method |-> "Network.enable"]

\* faulty variant: every optional field is written, null when the cookie has none
SetCookieParamsNulls(c) ==
    [k \in RequiredFields \cup {"expires", "secure", "httpOnly", "sameSite"} |->
        IF k \in DOMAIN c THEN << c[k] >> ELSE << >>]

\* params of Network.setCookie: name, value, domain, path; expires and sameSite
\* when Some(_); secure and httpOnly when Some(true) (an optional field's JSON
\* value is << v >>, and << >> would be null)
SetCookieParams(c) ==
    [k \in RequiredFields
           \cup {f \in {"expires", "sameSite"} : f \in DOMAIN c}
           \cup {f \in {"secure", "httpOnly"} : f \in DOMAIN c /\ c[f]} |->
        IF k \in RequiredFields THEN c[k] ELSE << c[k] >>]

\* faulty variant: the cookies are taken from the last to the first
CookieAtReversed(cs, i) == cs[Len(cs) + 1 - i]

\* cookies.iter().enumerate(): the i-th turn has the i-th cookie
CookieAt(cs, i) == cs[i]

\* { "id": 2 + i, "method": "Network.setCookie", "params": .. } with i counted
\* from 0
SetCookieReq(i, c) ==
    [id |-> 2 + (i - 1), method |-> "Network.setCookie", params |-> SetCookieParams(c)]

\* { "id": 10000, "method": "Page.navigate", "params": { "url": to_open } }
NavigateReq(to_open) ==
    [id |-> 10000, method |-> "Page.navigate", params |-> [url |-> to_open]]

\* { "id": 10_000 + i, "method": "Network.deleteCookies", "params": .. }
DeleteReq(i, triple) ==
    [id |-> 10000 + (i - 1), method |-> "Network.deleteCookies", params |-> triple]

\* `?` on an Err: the function returns it
Fails(c, item) == [c EXCEPT !.at = "returned", !.result = "err", !.failed = @ \cup {item}]

\* import_and_open_with_cookies_from_memory(cookies, url) is called
OpenCalled(cs, url) ==
    /\ call = NoCall
    /\ call' = [NoCall EXCEPT !.fn = "open", !.url = url, !.cookies = cs,
                              !.at = "put", !.result = "pending"]
    /\ UNCHANGED << relayVars, clientVars >>

\* PUT /json/new, the body parsed, the id and webSocketDebuggerUrl taken
OpenPut(ok) ==
    /\ call.fn = "open" /\ call.at = "put"
    /\ call' = IF ok
               THEN [call EXCEPT !.put = PutUrl(ToOpen(call.url)), !.page = NewTabId,
                                 !.at = "connect"]
               ELSE Fails([call EXCEPT !.put = PutUrl(ToOpen(call.url))], 0)
    /\ UNCHANGED << relayVars, clientVars >>

\* connect(ws_url)?
OpenConnect(ok) ==
    /\ call.fn = "open" /\ call.at = "connect"
    /\ call' = IF ok THEN [call EXCEPT !.at = "enable"] ELSE Fails(call, 0)
    /\ UNCHANGED << relayVars, clientVars >>

\* socket.write_message(Network.enable)?
OpenEnable(ok) ==
    /\ call.fn = "open" /\ call.at = "enable"
    /\ call' = IF ok
               THEN [call EXCEPT !.sent = Append(@, EnableReq),
                                 !.at = IF Len(call.cookies) = 0 THEN "navigate"
                                        ELSE "cookies"]
               ELSE Fails(call, 0)
    /\ UNCHANGED << relayVars, clientVars >>

\* one turn of `for (i, cookie) in cookies.iter().enumerate()`:
\* socket.write_message(Network.setCookie)?; no reply is read
OpenSetCookie(out) ==
    /\ call.fn = "open" /\ call.at = "cookies"
    /\ LET i == call.i
           more == [call EXCEPT !.sent = Append(@, SetCookieReq(i, CookieAt(call.cookies, i))),
                                !.i = i + 1,
                                !.at = IF i = Len(call.cookies) THEN "navigate"
                                       ELSE "cookies"]
       IN call' = CASE out = "ok" -> more
                    [] out = "refused" -> [more EXCEPT !.failed = @ \cup {i}]
                    [] OTHER -> Fails([call EXCEPT !.i = i + 1], i)
    /\ UNCHANGED << relayVars, clientVars >>

\* socket.write_message(Page.navigate)?, then Ok(local_tab_id)
OpenNavigate(ok) ==
    /\ call.fn = "open" /\ call.at = "navigate"
    /\ call' = IF ok
               THEN [call EXCEPT !.sent = Append(@, NavigateReq(ToOpen(call.url))),
                                 !.at = "returned", !.result = "ok",
                                 !.value = call.page]
               ELSE Fails(call, 0)
    /\ UNCHANGED << relayVars, clientVars >>

\* revoke_cookies(tab_id, cookies) is called
RevokeCalled(cs) ==
    /\ call = NoCall
    /\ call' = [NoCall EXCEPT !.fn = "revoke", !.cookies = cs, !.at = "find",
                              !.result = "pending"]
    /\ UNCHANGED << relayVars, clientVars >>

\* GET /json and the entry whose id is tab_id: "tab not found" is an Err
RevokeFind(ok) ==
    /\ call.fn = "revoke" /\ call.at = "find"
    /\ call' = IF ok THEN [call EXCEPT !.at = "connect"] ELSE Fails(call, 0)
    /\ UNCHANGED << relayVars, clientVars >>

\* connect(ws_url)?; with no cookie the loop is empty and Ok(()) is returned
RevokeConnect(ok) ==
    /\ call.fn = "revoke" /\ call.at = "connect"
    /\ call' = IF ~ok THEN Fails(call, 0)
               ELSE IF Len(call.cookies) = 0
               THEN [call EXCEPT !.at = "returned", !.result = "ok"]
               ELSE [call EXCEPT !.at = "cookies"]
    /\ UNCHANGED << relayVars, clientVars >>

\* one turn of `for (i, &(name, domain, path)) in cookies.iter().enumerate()`:
\* socket.write_message(Network.deleteCookies)?; after the last one Ok(())
RevokeDelete(out) ==
    /\ call.fn = "revoke" /\ call.at = "cookies"
    /\ LET i == call.i
           last == i = Len(call.cookies)
           more == [call EXCEPT !.sent = Append(@, DeleteReq(i, CookieAt(call.cookies, i))),
                                !.i = i + 1,
                                !.at = IF last THEN "returned" ELSE "cookies",
                                !.result = IF last THEN "ok" ELSE "pending"]
       IN call' = CASE out = "ok" -> more
                    [] out = "refused" -> [more EXCEPT !.failed = @ \cup {i}]
                    [] OTHER -> Fails([call EXCEPT !.i = i + 1], i)
    /\ UNCHANGED << relayVars, clientVars >>

\* ----------------------------------------------------------- specifications
\* connect_client not started (the relay specifications leave the client alone)
ClientIdle ==
    /\ cpc = "dial"
    /\ nFrames = 0
    /\ lastFrame = NoFrameYet
    /\ skipped = 0
    /\ idmap = << >>
    /\ workers = << >>
    /\ pages = {}
    /\ created = 0
    /\ holders = {}

\* after spawn_server returned: no connection yet, nothing published
Init ==
    /\ grantLog = << >>
    /\ revokeLog = << >>
    /\ subscribed = [p \in Peers |-> FALSE]
    /\ grantNext = [p \in Peers |-> 0]
    /\ revokeNext = [p \in Peers |-> 0]
    /\ subAt = [p \in Peers |-> [g |-> 0, r |-> 0]]
    /\ acceptPc = "accept"
    /\ pc = [p \in Peers |-> "idle"]
    /\ disabled = [p \in Peers |-> {}]
    /\ held = [p \in Peers |-> NoFrame]
    /\ conn = [p \in Peers |-> "none"]
    /\ inbound = [p \in Peers |-> 0]
    /\ wire = [p \in Peers |-> << >>]
    /\ guiStatus = "running"
    /\ nGrants = 0
    /\ nRevokes = 0
    /\ limits = [grants |-> MaxGrants, revokes |-> MaxRevokes]
    /\ unheard = {}
    /\ lagged = [p \in Peers |-> FALSE]
    /\ ClientIdle
    /\ ChromeIdle

Next ==
    \/ \E t \in TabIds : ShareClicked(t, FetchOk(t))
    \/ \E t \in TabIds : RevokeClicked(t, FetchOk(t))
    \/ \E p \in Peers : Accept(p)
    \/ AcceptError
    \/ \E p \in Peers : HandshakeOk(p)
    \/ \E p \in Peers : HandshakeFail(p)
    \/ \E p \in Peers : PollGrant(p)
    \/ \E p \in Peers : PollRevoke(p)
    \/ \E p \in Peers : WriteDone(p)
    \/ \E p \in Peers : PollWs(p)
    \/ \E p \in Peers : PeerSends(p)
    \/ \E p \in Peers : PeerCloses(p)

Spec == Init /\ [][Next]_vars

\* Both connections accepted and through the handshake, nothing published, and
\* Share clicked (on the first tab) often enough to overrun the Grant channel
OverflowInit ==
    /\ grantLog = << >>
    /\ revokeLog = << >>
    /\ subscribed = [p \in Peers |-> TRUE]
    /\ grantNext = [p \in Peers |-> 0]
    /\ revokeNext = [p \in Peers |-> 0]
    /\ subAt = [p \in Peers |-> [g |-> 0, r |-> 0]]
    /\ acceptPc = "accept"
    /\ pc = [p \in Peers |-> "select"]
    /\ disabled = [p \in Peers |-> {}]
    /\ held = [p \in Peers |-> NoFrame]
    /\ conn = [p \in Peers |-> "open"]
    /\ inbound = [p \in Peers |-> 0]
    /\ wire = [p \in Peers |-> << >>]
    /\ guiStatus = "running"
    /\ nGrants = 0
    /\ nRevokes = 0
    /\ limits = [grants |-> Capacity + MaxExtra, revokes |-> 0]
    /\ unheard = {}
    /\ lagged = [p \in Peers |-> FALSE]
    /\ ClientIdle
    /\ ChromeIdle

\* the tabs are shared in turn: first, second, ..., first again
TabInTurn == 1 + (nGrants % NTabs)

OverflowNext ==
    \/ ShareClicked(TabInTurn, FetchOk(TabInTurn))
    \/ \E p \in Peers : PollGrant(p)
    \/ \E p \in Peers : WriteDone(p)
    \/ \E p \in Peers : PollWs(p)
    \/ \E p \in Peers : PeerSends(p)

OverflowSpec == OverflowInit /\ [][OverflowNext]_vars

\* the same start with both peers silent: they stay connected and send
\* nothing, and no Revoke is published; each forwarding task is scheduled
\* whenever one of its futures is ready
QuietNext ==
    \/ ShareClicked(TabInTurn, FetchOk(TabInTurn))
    \/ \E p \in Peers : PollGrant(p)
    \/ \E p \in Peers : WriteDone(p)

QuietSpec ==
    /\ OverflowInit
    /\ [][QuietNext]_vars
    /\ \A p \in Peers : WF_vars(PollGrant(p)) /\ WF_vars(WriteDone(p))

\* the relay as spawn_server leaves it, with nothing ever published
RelayIdle ==
    /\ grantLog = << >>
    /\ revokeLog = << >>
    /\ subscribed = [p \in Peers |-> FALSE]
    /\ grantNext = [p \in Peers |-> 0]
    /\ revokeNext = [p \in Peers |-> 0]
    /\ subAt = [p \in Peers |-> [g |-> 0, r |-> 0]]
    /\ acceptPc = "accept"
    /\ pc = [p \in Peers |-> "idle"]
    /\ disabled = [p \in Peers |-> {}]
    /\ held = [p \in Peers |-> NoFrame]
    /\ conn = [p \in Peers |-> "none"]
    /\ inbound = [p \in Peers |-> 0]
    /\ wire = [p \in Peers |-> << >>]
    /\ guiStatus = "running"
    /\ nGrants = 0
    /\ nRevokes = 0
    /\ limits = [grants |-> 0, revokes |-> 0]
    /\ unheard = {}
    /\ lagged = [p \in Peers |-> FALSE]

\* connect_client called with an empty map; the client's browser may already
\* show a page whose id is the first session id (the sharing side and the
\* client driving the same browser)
ClientInit ==
    /\ RelayIdle
    /\ cpc = "dial"
    /\ nFrames = 0
    /\ lastFrame = NoFrameYet
    /\ skipped = 0
    /\ idmap = << >>
    /\ workers = << >>
    /\ pages \in {{}, {1}}
    /\ created = 0
    /\ holders = {}
    /\ ChromeIdle

ClientNext ==
    \/ DialOk
    \/ DialFail
    \/ ConnectionLost
    \/ \E f \in Frames : ClientRecv(f)
    \/ \E w \in 1..Len(workers), ok \in BOOLEAN : GrantOpen(w, ok)
    \/ \E w \in 1..Len(workers), ok \in BOOLEAN : GrantApply(w, ok)
    \/ \E w \in 1..Len(workers) : GrantLock(w)
    \/ \E w \in 1..Len(workers) : GrantInsert(w)
    \/ \E w \in 1..Len(workers), ok \in BOOLEAN : RevokeRun(w, ok)
    \/ \E l \in pages : PageClosed(l)

ClientSpec == ClientInit /\ [][ClientNext]_vars

\* one call of chrome.rs followed from its start, nothing else running
ChromeInit ==
    /\ RelayIdle
    /\ ClientIdle
    /\ ChromeIdle

ChromeNext ==
    \/ \E cs \in CookieLists, url \in Urls : OpenCalled(cs, url)
    \/ \E ok \in BOOLEAN : OpenPut(ok)
    \/ \E ok \in BOOLEAN : OpenConnect(ok)
    \/ \E ok \in BOOLEAN : OpenEnable(ok)
    \/ \E out \in ItemOutcomes : OpenSetCookie(out)
    \/ \E ok \in BOOLEAN : OpenNavigate(ok)
    \/ \E cs \in TripleLists : RevokeCalled(cs)
    \/ \E ok \in BOOLEAN : RevokeFind(ok)
    \/ \E ok \in BOOLEAN : RevokeConnect(ok)
    \/ \E out \in ItemOutcomes : RevokeDelete(out)

ChromeSpec == ChromeInit /\ [][ChromeNext]_vars

\* ------------------------------------------------------------------ claims
\* the Grant frames written to connection p, in order
GrantFramesOn(p) == SelectSeq(wire[p], LAMBDA f : f.text.type = "Grant")

\* frame f is the Grant frame of the published event ev
IsGrantFrameOf(f, ev) ==
    /\ f.seq = ev.seq
    /\ DOMAIN f.text = {"type", "tab_id", "url", "cookies"}
    /\ f.text.type = "Grant"
    /\ f.text.tab_id = ev.msg.tab_id
    /\ f.text.url = ev.msg.url
    /\ f.text.cookies = GrantFrame(ev.msg).cookies

\* no frame was written twice to connection p
NoDuplicate(p) ==
    \A i, j \in 1..Len(wire[p]) : i # j => wire[p][i].seq # wire[p][j].seq

\* connection p is open and its task has forwarded every Grant published so far
CaughtUp(p) ==
    /\ pc[p] = "select"
    /\ conn[p] = "open"
    /\ grantNext[p] = Len(grantLog)

\* the Grant frames on p's wire are exactly the first n Grants published since
\* p subscribed, one frame each, in order
GotGrants(p, n) ==
    /\ Len(GrantFramesOn(p)) = n
    /\ \A i \in 1..n : IsGrantFrameOf(GrantFramesOn(p)[i], grantLog[subAt[p].g + i])

\* C3 (as claimed): every Grant published while a peer is connected is observed
\* by that peer exactly once, whatever the number of publications and however
\* slow the peer is: once the peer's task has caught up, its wire holds one
\* frame per Grant published since it subscribed.
C3_ExactlyOnceAlways ==
    \A p \in Peers :
        /\ NoDuplicate(p)
        /\ CaughtUp(p) => GotGrants(p, Len(grantLog) - subAt[p].g)

\* C3 (amended): no Grant frame is ever written twice, and a connected peer
\* that never fell more than Capacity Grants behind has, once its task has
\* caught up, exactly one frame per Grant published since it subscribed.
C3_ExactlyOnceUnlessLagged ==
    \A p \in Peers :
        /\ NoDuplicate(p)
        /\ (CaughtUp(p) /\ ~lagged[p]) => GotGrants(p, Len(grantLog) - subAt[p].g)

\* C3 witness: more Grants than the channel holds were published, one peer kept
\* up and has them all while the other one lagged
C3_Witness ==
    \E p, q \in Peers :
        /\ Len(grantLog) > Capacity
        /\ CaughtUp(p) /\ ~lagged[p] /\ Len(GrantFramesOn(p)) = Len(grantLog)
        /\ lagged[q]

\* C4: a publication that finds no connected peer leaves the publisher running,
\* and its event is never written (nor about to be written) to any peer.
C4_NoErrorNoBacklog ==
    /\ guiStatus = "running"
    /\ \A p \in Peers :
        /\ held[p].seq \notin unheard
        /\ \A i \in 1..Len(wire[p]) : wire[p][i].seq \notin unheard

\* C4 witness: after a publication nobody heard, a peer connected and was sent
\* a later event
C4_Witness ==
    /\ unheard # {}
    /\ guiStatus = "running"
    /\ \E p \in Peers : \E i \in 1..Len(wire[p]) :
           \A s \in unheard : wire[p][i].seq > s

\* C5 (as claimed): the frames written to one peer are in publication order,
\* Grants and Revokes taken together.
C5_PublicationOrder ==
    \A p \in Peers :
        \A i, j \in 1..Len(wire[p]) : i < j => wire[p][i].seq < wire[p][j].seq

\* a peer is slow: its socket write does not complete, or its buffer is full
Slow(p) ==
    /\ subscribed[p]
    /\ \/ pc[p] = "send"
       \/ Len(grantLog) - grantNext[p] >= Capacity

\* the Grants whose write to connection p has completed
GrantsWritten(p) ==
    grantNext[p] - subAt[p].g
        - (IF pc[p] = "send" /\ held[p].text.type = "Grant" THEN 1 ELSE 0)

\* C6: while a peer is slow, the publisher can still publish, and every other
\* peer's task can still take its next event and finish its write, and has been
\* sent every Grant it took (none dropped on account of the slow peer).
C6_SlowPeerIsolated ==
    \A p \in Peers :
        Slow(p) =>
            /\ (guiStatus = "running" /\ nGrants < limits.grants)
                   => ENABLED ShareClicked(TabInTurn, FetchOk(TabInTurn))
            /\ \A q \in Peers \ {p} :
                /\ (pc[q] = "select" /\ "grant" \notin disabled[q]
                        /\ grantNext[q] < Len(grantLog))
                      => ENABLED PollGrant(q)
                /\ pc[q] = "send" => ENABLED WriteDone(q)
                /\ (conn[q] = "open" /\ ~lagged[q]) => GotGrants(q, GrantsWritten(q))

\* C6 witness: one peer's buffer is full and its write never completed, while
\* the other peer has been sent every Grant published
C6_Witness ==
    \E p, q \in Peers :
        /\ p # q
        /\ pc[p] = "send" /\ Len(grantLog) - grantNext[p] >= Capacity
        /\ Len(wire[p]) = 0
        /\ CaughtUp(q) /\ Len(GrantFramesOn(q)) = Len(grantLog)
        /\ Len(grantLog) >= Capacity

\* C7 (as claimed): a forwarding task whose write of a frame fails terminates:
\* the step that completes a write on a transport that is not open ends the task.
C7_TerminatesOnWriteFailure ==
    [][\A p \in Peers :
          (pc[p] = "send" /\ conn[p] # "open" /\ pc'[p] # "send")
              => pc'[p] = "done"]_vars

\* the state of every connection other than p
Others(p) ==
    [q \in Peers \ {p} |->
        << subscribed[q], grantNext[q], revokeNext[q], pc[q], held[q], wire[q],
           conn[q], disabled[q] >>]

\* C8: the end of one peer's task, and a failed handshake, change nothing of any
\* other connection; afterwards the accept loop is still running (it accepts the
\* next connection as soon as it is back in listener.accept), and every other
\* peer's task can still take its next event and finish its write.
C8_FailuresIsolated ==
    /\ [] (\A p \in Peers :
             pc[p] \in {"done", "rejected"} =>
                 /\ acceptPc \in {"accept", "handshake"}
                 /\ \A r \in Peers :
                        (acceptPc = "accept" /\ pc[r] = "idle") => ENABLED Accept(r)
                 /\ \A q \in Peers \ {p} :
                     /\ (pc[q] = "select" /\ "grant" \notin disabled[q]
                            /\ grantNext[q] < Len(grantLog)) => ENABLED PollGrant(q)
                     /\ (pc[q] = "select" /\ "revoke" \notin disabled[q]
                            /\ revokeNext[q] < Len(revokeLog)) => ENABLED PollRevoke(q)
                     /\ pc[q] = "send" => ENABLED WriteDone(q)
                     /\ pc[q] \in {"select", "send"} => subscribed[q])
    /\ [][\A p \in Peers :
             (pc[p] \notin {"done", "rejected"} /\ pc'[p] \in {"done", "rejected"})
                 => /\ Others(p)' = Others(p)
                    /\ pc'[p] = "rejected" => acceptPc' = "accept"
                    /\ pc'[p] = "done" => acceptPc' = acceptPc]_vars

\* C8 witness: one connection failed its handshake, the task of a second one
\* that was accepted later has forwarded a Grant
C8_Witness ==
    \E p, q \in Peers :
        /\ pc[p] = "rejected"
        /\ subAt[q].g > subAt[p].g
        /\ pc[q] = "select"
        /\ Len(GrantFramesOn(q)) > 0

\* the pages created by the Grant closures of session s
CreatedFor(s) ==
    {workers[w].page : w \in {v \in 1..Len(workers) :
                                 /\ workers[v].kind = "grant"
                                 /\ workers[v].tab_id = s
                                 /\ workers[v].page # 0}}

\* this step is the receive loop taking a frame and spawning a Revoke closure
SpawnsRevoke ==
    /\ nFrames' = nFrames + 1
    /\ Len(workers') = Len(workers) + 1
    /\ workers'[Len(workers')].kind = "revoke"

\* C1: a Revoke for session S received while the map records S -> L (L the page
\* of a Grant for S that was applied) is dispatched against L, and L is not S.
C1_RevokeTargetsMappedPage ==
    [][SpawnsRevoke =>
          LET r == workers'[Len(workers')]
          IN r.tab_id \in DOMAIN idmap =>
                 /\ r.target = idmap[r.tab_id]
                 /\ r.target # r.tab_id
                 /\ \E w \in 1..Len(workers) :
                        /\ workers[w].kind = "grant"
                        /\ workers[w].st = "done"
                        /\ workers[w].tab_id = r.tab_id
                        /\ workers[w].page = r.target]_vars

\* C1 witness: a Grant for a session was applied and recorded, and a Revoke
\* for that session received afterwards has run against the Grant's page
C1_Witness ==
    \E g, r \in 1..Len(workers) :
        /\ g < r
        /\ workers[g].kind = "grant" /\ workers[g].st = "done"
        /\ workers[r].kind = "revoke" /\ workers[r].tab_id = workers[g].tab_id
        /\ workers[r].target = workers[g].page
        /\ workers[r].target # workers[r].tab_id
        /\ workers[r].st = "ok"

\* C2 (as claimed): every delete_cookies dispatched for a Revoke of session S
\* targets a page that a Grant of session S created.
C2_RevokeOnlyGrantedPages ==
    \A w \in 1..Len(workers) :
        workers[w].kind = "revoke" => workers[w].target \in CreatedFor(workers[w].tab_id)

\* this step is Revoke closure w finishing on a page id the browser does not have
RevokeFindsNoPage(w) ==
    /\ w <= Len(workers)
    /\ workers[w].kind = "revoke"
    /\ workers[w].st = "spawned"
    /\ workers'[w].st # "spawned"
    /\ workers[w].target \notin pages

\* C9: a Revoke whose session id is not in the map is dispatched against the
\* raw session id and leaves the receive loop running; when that id resolves to
\* no page the closure reports an error and nothing else changes; the loop then
\* still takes every frame.
C9_UnmappedRevokeTolerated ==
    /\ [][SpawnsRevoke =>
             LET r == workers'[Len(workers')]
             IN r.tab_id \notin DOMAIN idmap =>
                    (r.target = r.tab_id /\ cpc' = "recv" /\ idmap' = idmap)]_vars
    /\ [][\A w \in 1..MaxFrames :
             RevokeFindsNoPage(w) =>
                 /\ workers'[w].st = "err"
                 /\ cpc' = cpc
                 /\ idmap' = idmap
                 /\ pages' = pages]_vars
    /\ [] (\A w \in 1..Len(workers) :
              workers[w].st \in {"spawned", "opened", "applied", "locked", "done", "ok",
                                 "err"})
    /\ [] ((cpc = "recv" /\ nFrames < MaxFrames /\ LockFree(holders)) =>
              \A f \in Frames : ENABLED ClientRecv(f))

\* C9 witness: a Revoke for a session the client never saw was dispatched
\* against the raw id and reported an error, and a Grant received after it
\* was applied and recorded
C9_Witness ==
    \E r, g \in 1..Len(workers) :
        /\ r < g
        /\ workers[r].kind = "revoke"
        /\ workers[r].target = workers[r].tab_id
        /\ workers[r].st = "err"
        /\ workers[g].kind = "grant" /\ workers[g].st = "done"
        /\ idmap[workers[g].tab_id] = workers[g].page
        /\ cpc = "recv"

\* C10: a text frame that does not decode (not JSON, a Grant or Revoke lacking a
\* required field, an unknown or missing type) spawns no browser operation,
\* changes neither the map nor the browser and leaves the loop running; a valid
\* frame received afterwards spawns its operation.
C10_MalformedFrameSkipped ==
    /\ [][(nFrames' = nFrames + 1 /\ lastFrame' \in BadFrames) =>
             /\ workers' = workers
             /\ idmap' = idmap
             /\ pages' = pages
             /\ created' = created
             /\ cpc' = "recv"]_vars
    /\ [] ((skipped > 0 /\ cpc = "recv" /\ nFrames < MaxFrames /\ LockFree(holders)) =>
              \A f \in GoodFrames :
                  ENABLED (ClientRecv(f) /\ Len(workers') = Len(workers) + 1))

\* C10 witness: after a frame was dropped, a valid Grant received next was
\* applied and recorded
C10_Witness ==
    /\ skipped > 0
    /\ Len(workers) = 1
    /\ lastFrame \in GoodFrames
    /\ workers[1].kind = "grant" /\ workers[1].st = "done"
    /\ workers[1].tab_id = lastFrame.obj.tab_id
    /\ idmap[workers[1].tab_id] = workers[1].page

\* C11 (as claimed): no frame received on an open connection ends the receive
\* loop, whatever its kind: a step that ends the loop either took no frame (the
\* connection was lost) or took the peer's close frame.
C11_NoFrameEndsLoop ==
    [][(cpc = "recv" /\ cpc' = "ended") =>
          (nFrames' = nFrames \/ lastFrame'.kind = "close")]_vars

\* C19: a failed dial and a lost connection end the client's run, and once the
\* run has ended no frame is taken, no closure is spawned and no dial is made.
C19_RunEndsForGood ==
    /\ [][(cpc = "dial" /\ cpc' # "dial") => cpc' \in {"recv", "ended"}]_vars
    /\ [][(cpc = "recv" /\ cpc' # "recv") => cpc' = "ended"]_vars
    /\ [][cpc = "ended" =>
             /\ cpc' = "ended"
             /\ nFrames' = nFrames
             /\ lastFrame' = lastFrame
             /\ Len(workers') = Len(workers)]_vars
    /\ [] (cpc = "ended" =>
              /\ ~ENABLED DialOk
              /\ \A f \in Frames : ~ENABLED ClientRecv(f))

\* C19 witness: the connection was lost after text frames had been handled (the
\* last frame taken was a text frame, so it was not a frame that ended the
\* loop), with frames still to come and a closure still running
C19_Witness ==
    /\ cpc = "ended"
    /\ nFrames > 0 /\ nFrames < MaxFrames
    /\ lastFrame.kind = "text"
    /\ \E w \in 1..Len(workers) : workers[w].st = "spawned"

\* this step is Grant closure w leaving its critical section
Inserts(w) ==
    /\ w <= Len(workers)
    /\ workers[w].kind = "grant"
    /\ workers[w].st = "locked"
    /\ workers'[w].st = "done"

\* C12: a Grant closure whose call returned Ok(L) for session S takes the lock
\* and records S -> L: after its insert the map holds L for S (whatever it held
\* before), its keys are the old keys and S, and every other key has kept its
\* value.
C12_InsertRecordsPage ==
    /\ [][\A w \in 1..MaxFrames :
             Inserts(w) =>
                 LET s == workers[w].tab_id
                 IN /\ workers[w].ret = "ok"
                    /\ DOMAIN idmap' = DOMAIN idmap \cup {s}
                    /\ idmap'[s] = workers[w].page
                    /\ \A k \in DOMAIN idmap \ {s} : idmap'[k] = idmap[k]]_vars
    /\ [] (\A w \in 1..Len(workers) :
              /\ (workers[w].st = "applied" /\ LockFree(holders)) => ENABLED GrantLock(w)
              /\ workers[w].st = "locked" => ENABLED GrantInsert(w))

\* C12 witness: two Grants of one session were applied, the map holds the page
\* of the one that inserted last in place of the other's, next to the entry of
\* another session
C12_Witness ==
    \E g, h \in 1..Len(workers) :
        /\ g # h
        /\ workers[g].kind = "grant" /\ workers[g].st = "done"
        /\ workers[h].kind = "grant" /\ workers[h].st = "done"
        /\ workers[g].tab_id = workers[h].tab_id
        /\ workers[g].page # workers[h].page
        /\ idmap[workers[g].tab_id] = workers[h].page
        /\ \E k \in DOMAIN idmap : k # workers[g].tab_id

\* C13: a Grant whose import_and_open_with_cookies_from_memory returned an Err
\* leaves the map as it was: the step in which the call fails changes no entry,
\* the closure is over, and every entry of the map is the page of a Grant whose
\* call returned Ok.
C13_FailedGrantLeavesMap ==
    /\ [][\A w \in 1..MaxFrames :
             (/\ w <= Len(workers)
              /\ workers[w].kind = "grant"
              /\ workers[w].ret = "pending"
              /\ workers'[w].ret = "err") => idmap' = idmap]_vars
    /\ [] (\A w \in 1..Len(workers) :
              (workers[w].kind = "grant" /\ workers[w].ret = "err") =>
                  /\ workers[w].st = "err"
                  /\ ~ENABLED GrantLock(w)
                  /\ ~ENABLED GrantInsert(w))
    /\ [] (\A s \in DOMAIN idmap :
              \E w \in 1..Len(workers) :
                  /\ workers[w].kind = "grant"
                  /\ workers[w].ret = "ok"
                  /\ workers[w].tab_id = s
                  /\ workers[w].page = idmap[s])

\* C13 witness: a session's Grant was applied and recorded, a second Grant of
\* the session failed after its page was created, another failed before, and
\* the map still holds the first one's page
C13_Witness ==
    \E g, h, i \in 1..Len(workers) :
        /\ workers[g].kind = "grant" /\ workers[g].st = "done"
        /\ workers[h].kind = "grant" /\ workers[h].ret = "err" /\ workers[h].page # 0
        /\ workers[i].kind = "grant" /\ workers[i].ret = "err" /\ workers[i].page = 0
        /\ workers[h].tab_id = workers[g].tab_id
        /\ idmap[workers[g].tab_id] = workers[g].page

\* C14: the map is read and written under its mutex and the mutex is not held
\* during browser I/O: at most one guard is alive; the map changes only in a
\* step of the closure holding the guard, which then drops it; the loop's lookup
\* happens only when no guard is alive; a closure holding the guard has its
\* browser call behind it, and no step of a browser call is taken by a closure
\* holding the guard or changes who holds it.
C14_MapUnderLock ==
    /\ [] (Cardinality(holders) <= 1)
    /\ [] (\A w \in holders :
              /\ w \in 1..Len(workers)
              /\ workers[w].kind = "grant"
              /\ workers[w].st = "locked")
    /\ [][idmap' # idmap => \E w \in holders : Inserts(w) /\ holders' = {}]_vars
    /\ [][SpawnsRevoke => (holders = {} /\ holders' = {})]_vars
    /\ [][\A w \in 1..MaxFrames :
             (/\ w <= Len(workers)
              /\ workers[w].ret = "pending"
              /\ workers'[w] # workers[w]) => (w \notin holders /\ holders' = holders)]_vars

\* C14 witness: one Grant closure holds the guard while a second one, its
\* browser call done, waits for it and a third closure is in its browser call
C14_Witness ==
    \E w, v, u \in 1..Len(workers) :
        /\ holders = {w}
        /\ workers[v].st = "applied"
        /\ workers[u].st \in {"spawned", "opened"}

\* C18 (as claimed): once the client's connection has closed and the receive
\* loop has ended, no Grant closure still in flight changes the map.
C18_NoInsertAfterClose ==
    [][cpc = "ended" => idmap' = idmap]_vars

\* C20 (as claimed): a Revoke of session S received after a Grant of S (the
\* last one before it, its browser call not failed) is dispatched against the
\* page that Grant created, so after the Grant's cookies were set.
C20_RevokeFollowsGrant ==
    \A r \in 1..Len(workers) :
        workers[r].kind = "revoke" =>
            \A g \in 1..(r - 1) :
                (/\ workers[g].kind = "grant"
                 /\ workers[g].tab_id = workers[r].tab_id
                 /\ workers[g].ret # "err"
                 /\ \A h \in (g + 1)..(r - 1) :
                        ~(workers[h].kind = "grant" /\ workers[h].tab_id = workers[r].tab_id))
                    => /\ workers[g].page # 0
                       /\ workers[r].target = workers[g].page

\* C15 (as claimed): in import_and_open_with_cookies_from_memory a failed
\* set-cookie request is not fatal: a call in which only set-cookie requests
\* failed has gone through every cookie, has written the navigate request and
\* has returned the page's id.
C15_SetCookieFailureNotFatal ==
    (/\ call.fn = "open"
     /\ call.at = "returned"
     /\ call.failed # {}
     /\ 0 \notin call.failed)
        => /\ call.i > Len(call.cookies)
           /\ \E k \in 1..Len(call.sent) : call.sent[k].method = "Page.navigate"
           /\ call.result = "ok"

\* C16 (as claimed): in revoke_cookies a failure on one triple does not abort
\* the rest: a call that has returned after a triple failed has gone through
\* every triple of its input.
C16_DeleteFailureNotFatal ==
    (/\ call.fn = "revoke"
     /\ call.at = "returned"
     /\ call.failed # {}
     /\ 0 \notin call.failed)
        => call.i > Len(call.cookies)

\* C17 (as claimed): a cookie set or delete that the browser refused or that
\* failed shows in the call's result: a call returns Ok only when no item
\* failed.
C17_ItemFailuresReported ==
    (call.at = "returned" /\ call.result = "ok") => call.failed = {}

\* the closures whose browser call has not returned
InBrowser == {w \in 1..Len(workers) : workers[w].ret = "pending"}

\* C21: the receive loop never waits for a browser operation: the step that
\* dispatches an operation only spawns its closure and leaves the loop
\* receiving, and while closures are in their browser calls the loop can take
\* any next frame (a Revoke's lookup waiting at most for the map's guard, which
\* no closure holds during a browser call).
C21_LoopNeverWaitsForBrowser ==
    /\ [][Len(workers') = Len(workers) + 1 =>
             /\ cpc' = "recv"
             /\ workers'[Len(workers')].st = "spawned"
             /\ workers'[Len(workers')].ret = "pending"
             /\ pages' = pages]_vars
    /\ [] ((cpc = "recv" /\ nFrames < MaxFrames /\ InBrowser # {}) =>
              /\ holders \cap InBrowser = {}
              /\ \A f \in Frames : LockFree(holders) => ENABLED ClientRecv(f)
              /\ \A f \in Frames : TypeOf(f.obj) # "Revoke" => ENABLED ClientRecv(f))

\* C21 witness: the first Grant's page is still being opened while the frames
\* received after it have been dispatched and the Revoke among them has run
C21_Witness ==
    /\ Len(workers) = MaxFrames
    /\ workers[1].kind = "grant" /\ workers[1].st = "spawned"
    /\ \E r \in 2..Len(workers) : workers[r].kind = "revoke" /\ workers[r].st = "ok"

\* C22 (as claimed): a connection accepted by the listener whose WebSocket
\* handshake has not completed does not keep the relay from accepting another
\* peer: while a handshake is pending, a connection not yet accepted can be.
C22_PendingHandshakeBlocksNobody ==
    \A p, q \in Peers :
        (pc[p] = "handshake" /\ pc[q] = "idle") => ENABLED Accept(q)

\* this step is closure w of a Revoke running revoke_cookies
RunsRevoke(w) ==
    /\ w <= Len(workers)
    /\ workers[w].kind = "revoke"
    /\ workers[w].st = "spawned"
    /\ workers'[w].st # "spawned"

\* C26: the map's key set only grows, and a Revoke changes nothing of the map:
\* neither the loop's lookup and dispatch nor the closure's revoke_cookies,
\* whether the session was mapped or not and whether the call fails or not.
C26_MapOnlyGrows ==
    /\ [][DOMAIN idmap \subseteq DOMAIN idmap']_vars
    /\ [][SpawnsRevoke => idmap' = idmap]_vars
    /\ [][\A w \in 1..MaxFrames : RunsRevoke(w) => idmap' = idmap]_vars

\* C26 witness: two sessions are in the map; a Revoke of one of them, received
\* when it was mapped, has run
C26_Witness ==
    /\ Cardinality(DOMAIN idmap) = 2
    /\ \E r \in 1..Len(workers) :
           /\ workers[r].kind = "revoke"
           /\ workers[r].st = "ok"
           /\ workers[r].tab_id \in DOMAIN idmap
           /\ workers[r].target = idmap[workers[r].tab_id]
           /\ workers[r].target # workers[r].tab_id

\* the Grant closures of session s
GrantsOf(s) ==
    {w \in 1..Len(workers) : workers[w].kind = "grant" /\ workers[w].tab_id = s}

\* C27 (as claimed): when the Grants received for a session are all over and
\* two of them were applied and recorded, the map holds the page of the one
\* received last, whichever browser call finished first.
C27_LaterGrantWins ==
    \A s \in TabIds :
        LET done == {w \in GrantsOf(s) : workers[w].st = "done"}
        IN (/\ Cardinality(done) >= 2
            /\ \A w \in GrantsOf(s) : workers[w].st \in {"done", "err"})
               => idmap[s] = workers[CHOOSE w \in done : \A v \in done : v <= w].page

\* the publication a frame was made from
PublishedAs(f, log) == {log[k].msg : k \in {j \in 1..Len(log) : log[j].seq = f.seq}}

\* the frames written to a peer or being written
FramesOut == UNION {{wire[p][k] : k \in 1..Len(wire[p])} : p \in Peers}
                 \cup {held[p] : p \in {q \in Peers : pc[q] = "send"}}

C23_RequestOrder ==
    call.fn = "open" =>
        LET n == Len(call.cookies)
            web == {"http://", "https://"}
        IN /\ Len(call.sent) <= n + 2
           /\ call.sent # << >> => call.page = NewTabId
           /\ \A k \in 1..Len(call.sent) :
                  LET r == call.sent[k]
                  IN /\ k = 1 => r.method = "Network.enable"
                     /\ (1 < k /\ k <= n + 1) =>
                            /\ r.method = "Network.setCookie"
                            /\ \A f \in RequiredFields :
                                   r.params[f] = call.cookies[k - 1][f]
                     /\ k = n + 2 =>
                            /\ r.method = "Page.navigate"
                            /\ r.params.url[1] \in web
                            /\ call.url[1] \in web => r.params.url = call.url
                            /\ call.url[1] \notin web =>
                                   r.params.url = << "https://" >> \o call.url
                            /\ call.put[Len(call.put)] = r.params.url[Len(r.params.url)]
                            /\ Len(call.put) = Len(r.params.url) + 1
           /\ call.result = "ok" =>
                  /\ Len(call.sent) = n + 2
                  /\ call.value = NewTabId

\* C23 witness: a call given two different cookies and a url without scheme
\* has returned Ok
C23_Witness ==
    /\ call.fn = "open"
    /\ call.result = "ok"
    /\ Len(call.cookies) = 2
    /\ call.cookies[1].name # call.cookies[2].name
    /\ call.url = << "example.com" >>

\* the Network.setCookie requests written, each with the cookie it is for
SetCookieRequests ==
    {<< call.sent[k].params, call.cookies[call.sent[k].id - 1] >> :
        k \in {j \in 1..Len(call.sent) : call.sent[j].method = "Network.setCookie"}}

\* C24 (as claimed): a set-cookie request carries expires, secure, httpOnly and
\* sameSite exactly when the cookie has the field, with the cookie's value.
C24_OptionalFieldsExactly ==
    call.fn = "open" =>
        \A rc \in SetCookieRequests :
            \A f \in {"expires", "secure", "httpOnly", "sameSite"} :
                /\ f \in DOMAIN rc[1] <=> f \in DOMAIN rc[2]
                /\ f \in DOMAIN rc[1] => rc[1][f] = << rc[2][f] >>

\* C24 (amended): a set-cookie request carries expires and sameSite exactly
\* when the cookie has them, and secure and httpOnly exactly when the cookie
\* has them and they are true, each with the cookie's value; a field the cookie
\* does not have is not in the request, so never null; a secure or httpOnly
\* that is present and false is left out.
C24_OptionalFieldsWhenSet ==
    call.fn = "open" =>
        \A rc \in SetCookieRequests :
            /\ DOMAIN rc[1] \subseteq
                   RequiredFields \cup {"expires", "secure", "httpOnly", "sameSite"}
            /\ \A f \in {"expires", "sameSite"} :
                   f \in DOMAIN rc[1] <=> f \in DOMAIN rc[2]
            /\ \A f \in {"secure", "httpOnly"} :
                   f \in DOMAIN rc[1] <=> (f \in DOMAIN rc[2] /\ rc[2][f] = TRUE)
            /\ \A f \in DOMAIN rc[1] \ RequiredFields :
                   /\ f \in DOMAIN rc[2]
                   /\ rc[1][f] = << rc[2][f] >>

\* C24 witness: requests were written for a cookie with all four optional
\* fields and for one whose secure and httpOnly are false, and the call
\* returned Ok
C24_Witness ==
    /\ call.fn = "open"
    /\ call.result = "ok"
    /\ \E rc \in SetCookieRequests :
           {"expires", "secure", "httpOnly", "sameSite"} \subseteq DOMAIN rc[1]
    /\ \E rc \in SetCookieRequests :
           /\ "secure" \in DOMAIN rc[2]
           /\ "secure" \notin DOMAIN rc[1]

\* C28 (as claimed): a peer whose Grant receiver has overflowed is, as long as
\* it stays connected, eventually sent the Grants still retained for it, with
\* no further publication and no inbound message needed: its task gets to the
\* end of the channel.
C28_LaggedCatchesUp ==
    \A p \in Peers : [] (lagged[p] => <> CaughtUp(p))

\* the positions of the Grant channel that p's receiver went past without the
\* Grant being written, or about to be written, to p
Missed(p) ==
    {i \in (subAt[p].g + 1)..grantNext[p] :
        /\ \A k \in 1..Len(wire[p]) : wire[p][k].seq # grantLog[i].seq
        /\ ~(pc[p] = "send" /\ held[p].seq = grantLog[i].seq)}

====
